---- MODULE Spec2Model ----
(***************************************************************************)
(* 404.py: a multithreaded dead link crawler.                              *)
(*                                                                         *)
(* The model follows src/Source/404.py: main() validates the thread count, *)
(* run() creates a ThreadPool, submits the seed LinkTask and then consumes *)
(* completed tasks from the generator poll_completed_tasks(), while the    *)
(* Worker threads move tasks from the todo Queue to the done Queue.        *)
(*                                                                         *)
(* A URL string is modelled by its parts as written in the string:         *)
(* [scheme, host, port, path, frag]; two URL strings are equal exactly     *)
(* when their parts are equal.  Relative references have scheme "".        *)
(***************************************************************************)
EXTENDS Integers, Sequences, FiniteSets, TLC

(* ------------------------------------------------------------------ *)
(* Bounds                                                              *)
(* ------------------------------------------------------------------ *)

\* largest value of --threads that is explored (-1 and 0 are explored too)
MaxThreads == 2

(* ------------------------------------------------------------------ *)
(* URL strings and the urllib.parse functions the program calls        *)
(* ------------------------------------------------------------------ *)

\* the empty fragment: the URL string holds no '#'
NoFrag == ""

\* LinkTask.status before run(): None
NoStatus == 0

Abs(scheme, host, port, path, frag) ==
    [scheme |-> scheme, host |-> host, port |-> port, path |-> path, frag |-> frag]

\* a relative reference: "/about", "/x#a", "#top" (path "")
Rel(path, frag) == Abs("", "", "", path, frag)

\* str.lower() on the scheme and host spellings the model uses
Lower(s) ==
    CASE s = "HTTP" -> "http"
      [] s = "HTTPS" -> "https"
      [] s = "EXAMPLE.test" -> "example.test"
      [] OTHER -> s

\* urllib.parse.urlparse(link): the scheme is lowercased, the netloc
\* (host and port as written) is not; .hostname is the lowercased host
urlparse(u) ==
    [scheme |-> Lower(u.scheme),
     netloc |-> <<u.host, u.port>>,
     hostname |-> Lower(u.host),
     path |-> u.path,
     fragment |-> u.frag]

\* urllib.parse.urldefrag(link)[0]: a string without '#' is returned as it
\* is; otherwise it is parsed and put together again without the fragment,
\* which also lowercases the scheme
urldefrag(u) ==
    IF u.frag = NoFrag
    THEN u
    ELSE [u EXCEPT !.scheme = Lower(@), !.frag = NoFrag]

\* urllib.parse.urljoin(base, href)
urljoin(base, href) ==
    IF href.scheme = ""
    THEN \* relative reference: scheme and netloc of the base
         [scheme |-> Lower(base.scheme), host |-> base.host, port |-> base.port,
          path |-> IF href.path = "" THEN base.path ELSE href.path,
          frag |-> href.frag]
    ELSE IF Lower(href.scheme) # Lower(base.scheme) \/ href.host = ""
         THEN href
         ELSE [href EXCEPT !.scheme = Lower(@)]

(* ------------------------------------------------------------------ *)
(* The sites that are crawled                                          *)
(* ------------------------------------------------------------------ *)

\* what the server at a URL answers; the fragment is not sent
Key(u) == <<Lower(u.scheme), Lower(u.host), u.port, u.path>>

\* fail: "none"; "connect_timeout" / "connect_error": requests.get raises;
\* "body_timeout": reading response.content raises Timeout;
\* "parse_error": urljoin raises on the href at index bad
Page(u, st, html, hrefs, fail, bad) ==
    [key |-> Key(u), status |-> st, html |-> html, hrefs |-> hrefs,
     fail |-> fail, bad |-> bad]

Home == Abs("http", "example.test", "", "/", NoFrag)
HomeTop == Abs("http", "example.test", "", "/", "top")
About == Abs("http", "example.test", "", "/about", NoFrag)
Other == Abs("http", "other.test", "", "/", NoFrag)

Sites == {"scenario", "frags", "hosts", "errors", "seed404", "seedfail", "plain"}

Pages(site) ==
    CASE site = "scenario" ->
           { Page(Home, 200, TRUE,
                  << Rel("/about", NoFrag), Other >>, "none", 0),
             Page(About, 200, TRUE,
                  << Rel("/", NoFrag), Rel("", "top") >>, "none", 0),
             Page(Other, 200, TRUE,
                  << Home, Rel("", "a") >>, "none", 0) }
      [] site = "frags" ->
           { Page(Home, 200, TRUE,
                  << Rel("/x", "a"), Rel("/x", "b"),
                     Abs("mailto", "", "", "bob@example.test", NoFrag),
                     Rel("/", NoFrag) >>, "none", 0),
             Page(Abs("http", "example.test", "", "/x", NoFrag), 200, TRUE,
                  << Rel("/y", NoFrag) >>, "body_timeout", 0) }
      [] site = "hosts" ->
           { Page(Home, 200, TRUE,
                  << Abs("http", "EXAMPLE.test", "", "/about", NoFrag),
                     Abs("HTTPS", "example.test", "", "/about/", NoFrag),
                     Abs("http", "example.test", "8080", "/", "a") >>, "none", 0),
             Page(About, 599, FALSE, << >>, "none", 0),
             Page(Abs("https", "example.test", "", "/about/", NoFrag), 400, FALSE,
                  << >>, "none", 0),
             Page(Abs("http", "example.test", "8080", "/", NoFrag), 600, FALSE,
                  << >>, "none", 0) }
      [] site = "errors" ->
           { Page(Home, 200, TRUE,
                  << Rel("/slow", NoFrag), Rel("/broken", NoFrag) >>, "none", 0),
             Page(Abs("http", "example.test", "", "/slow", NoFrag), NoStatus, FALSE,
                  << >>, "connect_timeout", 0),
             Page(Abs("http", "example.test", "", "/broken", NoFrag), 200, TRUE,
                  << Other, Rel("/bad", NoFrag) >>, "parse_error", 2) }
      [] site = "seed404" ->
           { Page(Home, 404, TRUE, << Rel("/about", NoFrag) >>, "none", 0) }
      [] site = "seedfail" ->
           { Page(Home, NoStatus, FALSE, << >>, "connect_error", 0) }
      [] OTHER ->
           { Page(Home, 200, FALSE, << Rel("/about", NoFrag) >>, "none", 0) }

\* a URL the site does not describe answers 404
Fetch(site, u) ==
    IF \E p \in Pages(site) : p.key = Key(u)
    THEN CHOOSE p \in Pages(site) : p.key = Key(u)
    ELSE Page(u, 404, FALSE, << >>, "none", 0)

\* the command lines explored: <<url, site>>
Inputs ==
    { <<Home, s>> : s \in Sites } \cup { <<HomeTop, "frags">> }

Policies == {"check", "ignore", "follow"}

(* ------------------------------------------------------------------ *)
(* State                                                               *)
(* ------------------------------------------------------------------ *)

VARIABLES
    \* options (main)
    url, site, internal, external, print_all, threads,
    \* the orchestrator: position, the task yielded to the loop body, the
    \* index of the next link of that task
    pc, cur, li,
    \* ThreadPool
    tasks, todo, done, unfinished, pending_tasks,
    \* Worker threads: position and task in hand
    wpc, wtask,
    \* run(): locals
    status, link_cache, netloc,
    st_total_links, st_total_internal, st_total_external,
    st_error_task, st_error_link,
    \* stdout lines, stderr lines, process exit status
    out, err, exit_code,
    \* history: the tasks wait_for_task() has returned, in order
    taken,
    \* history: the tasks the workers have put on the done queue, in order
    completed

opts == <<url, site, internal, external, print_all, threads>>
stats == <<st_total_links, st_total_internal, st_total_external,
           st_error_task, st_error_link>>
vars == <<opts, pc, cur, li, tasks, todo, done, unfinished, pending_tasks,
          wpc, wtask, status, link_cache, netloc, stats, out, err, exit_code, taken, completed>>

NoExit == 0 - 1

Init ==
    /\ \E in \in Inputs : url = in[1] /\ site = in[2]
    /\ internal \in Policies
    /\ external \in Policies
    /\ print_all \in BOOLEAN
    /\ threads \in (0 - 1)..MaxThreads
    /\ pc = "main"
    /\ cur = 0
    /\ li = 0
    /\ tasks = << >>
    /\ todo = << >>
    /\ done = << >>
    /\ unfinished = 0
    /\ pending_tasks = 0
    /\ wpc = << >>
    /\ wtask = << >>
    /\ status = 0
    /\ link_cache = {}
    /\ netloc = << >>
    /\ st_total_links = 0
    /\ st_total_internal = 0
    /\ st_total_external = 0
    /\ st_error_task = 0
    /\ st_error_link = 0
    /\ out = << >>
    /\ err = << >>
    /\ exit_code = NoExit
    /\ taken = << >>
    /\ completed = << >>


(* ------------------------------------------------------------------ *)
(* LinkTask                                                            *)
(* ------------------------------------------------------------------ *)

\* LinkTask.__init__: timeout and allow_redirects are passed on to
\* requests.get and do not change what the program does with the answer
LinkTask(link, parse_links) ==
    [link |-> link, parse_links |-> parse_links,
     links |-> << >>, status |-> NoStatus, exception |-> "None"]

\* the kind of exception that LinkTask.run stores in .exception
Raised(fail) ==
    CASE fail \in {"connect_timeout", "body_timeout"} -> "Timeout"
      [] fail = "connect_error" -> "ConnectionError"
      [] OTHER -> "ValueError"

ClientOrServerError_ServerOnly(st) == 500 <= st /\ st < 600

ClientOrServerError_Exclusive(st) == 400 < st /\ st < 600

\* 400 <= status < 600
ClientOrServerError(st) == 400 <= st /\ st < 600

\* LinkTask.run on the answer p of the server: the task with its results
LinkTask_run(t, p) ==
    IF p.fail \in {"connect_timeout", "connect_error"}
    THEN [t EXCEPT !.exception = Raised(p.fail)]
    ELSE LET t1 == [t EXCEPT !.status = p.status]
         IN  IF ~t.parse_links THEN t1
             ELSE IF ClientOrServerError(p.status) THEN t1
             ELSE IF ~p.html THEN t1
             ELSE IF p.fail = "body_timeout"
                  THEN [t1 EXCEPT !.exception = Raised(p.fail)]
             ELSE LET n == IF p.fail = "parse_error" THEN p.bad - 1 ELSE Len(p.hrefs)
                  IN  [t1 EXCEPT
                         !.links = [i \in 1..n |-> urljoin(t.link, p.hrefs[i])],
                         !.exception = IF p.fail = "parse_error"
                                       THEN Raised(p.fail) ELSE "None"]

(* ------------------------------------------------------------------ *)
(* Worker threads                                                      *)
(* ------------------------------------------------------------------ *)

Workers == DOMAIN wpc

Worker_get_Last(w) ==
    /\ wpc[w] = "get"
    /\ todo # << >>
    /\ wtask' = [wtask EXCEPT ![w] = todo[Len(todo)]]
    /\ todo' = SubSeq(todo, 1, Len(todo) - 1)
    /\ wpc' = [wpc EXCEPT ![w] = "run"]
    /\ UNCHANGED <<opts, pc, cur, li, tasks, done, unfinished, pending_tasks,
                   status, link_cache, netloc, stats, out, err, exit_code, taken, completed>>

\* task = self.todo.get(): blocks while the queue is empty
Worker_get(w) ==
    /\ wpc[w] = "get"
    /\ todo # << >>
    /\ wtask' = [wtask EXCEPT ![w] = Head(todo)]
    /\ todo' = Tail(todo)
    /\ wpc' = [wpc EXCEPT ![w] = "run"]
    /\ UNCHANGED <<opts, pc, cur, li, tasks, done, unfinished, pending_tasks,
                   status, link_cache, netloc, stats, out, err, exit_code, taken, completed>>

\* task.run()
Worker_run_task(w) ==
    /\ wpc[w] = "run"
    /\ tasks' = [tasks EXCEPT ![wtask[w]] = LinkTask_run(@, Fetch(site, @.link))]
    /\ wpc' = [wpc EXCEPT ![w] = "put"]
    /\ UNCHANGED <<opts, pc, cur, li, todo, done, unfinished, pending_tasks, wtask,
                   status, link_cache, netloc, stats, out, err, exit_code, taken, completed>>

Worker_put_DropFailed(w) ==
    /\ wpc[w] = "put"
    /\ done' = IF tasks[wtask[w]].exception = "None" THEN Append(done, wtask[w]) ELSE done
    /\ completed' = IF tasks[wtask[w]].exception = "None"
                    THEN Append(completed, wtask[w]) ELSE completed
    /\ wpc' = [wpc EXCEPT ![w] = "task_done"]
    /\ UNCHANGED <<opts, pc, cur, li, tasks, todo, unfinished, pending_tasks, wtask,
                   status, link_cache, netloc, stats, out, err, exit_code, taken>>

\* self.done.put(task)
Worker_put(w) ==
    /\ wpc[w] = "put"
    /\ done' = Append(done, wtask[w])
    /\ completed' = Append(completed, wtask[w])
    /\ wpc' = [wpc EXCEPT ![w] = "task_done"]
    /\ UNCHANGED <<opts, pc, cur, li, tasks, todo, unfinished, pending_tasks, wtask,
                   status, link_cache, netloc, stats, out, err, exit_code, taken>>

\* self.todo.task_done()
Worker_task_done(w) ==
    /\ wpc[w] = "task_done"
    /\ unfinished' = unfinished - 1
    /\ wtask' = [wtask EXCEPT ![w] = 0]
    /\ wpc' = [wpc EXCEPT ![w] = "get"]
    /\ UNCHANGED <<opts, pc, cur, li, tasks, todo, done, pending_tasks,
                   status, link_cache, netloc, stats, out, err, exit_code, taken, completed>>

(* ------------------------------------------------------------------ *)
(* main() and run()                                                    *)
(* ------------------------------------------------------------------ *)

main_ZeroAllowed ==
    /\ pc = "main"
    /\ IF threads < 0
       THEN /\ err' = Append(err, <<"threads", "the number of threads must be positive">>)
            /\ exit_code' = 1
            /\ pc' = "rejected"
       ELSE /\ pc' = "run"
            /\ UNCHANGED <<err, exit_code>>
    /\ UNCHANGED <<opts, cur, li, tasks, todo, done, unfinished, pending_tasks,
                   wpc, wtask, status, link_cache, netloc, stats, out, taken, completed>>

\* main: validate threads number
main ==
    /\ pc = "main"
    /\ IF threads < 1
       THEN /\ err' = Append(err, <<"threads", "the number of threads must be positive">>)
            /\ exit_code' = 1
            /\ pc' = "rejected"
       ELSE /\ pc' = "run"
            /\ UNCHANGED <<err, exit_code>>
    /\ UNCHANGED <<opts, cur, li, tasks, todo, done, unfinished, pending_tasks,
                   wpc, wtask, status, link_cache, netloc, stats, out, taken, completed>>

PendingAfterAdd_Forgotten(n) == n

\* self.pending_tasks += 1 in add_task
PendingAfterAdd(n) == n + 1

PendingAfterYield_Kept(n) == n

PendingAfterYield_Twice(n) == n - 2

\* self.pending_tasks -= 1 after the yield in poll_completed_tasks
PendingAfterYield(n) == n - 1

\* run, up to the loop: the pool, the seed task, the workers, the link
\* cache, the domain and the statistics
run_setup ==
    /\ pc = "run"
    /\ status' = 0
    /\ tasks' = << LinkTask(url, TRUE) >>
    /\ pending_tasks' = PendingAfterAdd(0)
    /\ todo' = << 1 >>
    /\ unfinished' = 1
    /\ done' = << >>
    /\ wpc' = [w \in 1..threads |-> "get"]
    /\ wtask' = [w \in 1..threads |-> 0]
    /\ link_cache' = {url}
    /\ netloc' = urlparse(url).netloc
    /\ st_total_links' = 1
    /\ st_total_internal' = 1
    /\ st_total_external' = 0
    /\ st_error_task' = 0
    /\ st_error_link' = 0
    /\ pc' = "poll"
    /\ UNCHANGED <<opts, cur, li, out, err, exit_code, taken, completed>>

wait_for_task_Lowest ==
    /\ pc = "poll"
    /\ pending_tasks > 0
    /\ done # << >>
    /\ LET first == CHOOSE i \in { done[k] : k \in 1..Len(done) } :
                        \A k \in 1..Len(done) : i <= done[k]
       IN  /\ cur' = first
           /\ done' = SelectSeq(done, LAMBDA i : i # first)
           /\ taken' = Append(taken, first)
    /\ pc' = "body"
    /\ UNCHANGED <<opts, li, tasks, todo, unfinished, pending_tasks, wpc, wtask,
                   status, link_cache, netloc, stats, out, err, exit_code, completed>>

\* poll_completed_tasks: while pending_tasks > 0: yield wait_for_task();
\* wait_for_task polls the done queue every 0.1 s until it holds a task
wait_for_task ==
    /\ pc = "poll"
    /\ pending_tasks > 0
    /\ done # << >>
    /\ cur' = Head(done)
    /\ done' = Tail(done)
    /\ taken' = Append(taken, Head(done))
    /\ pc' = "body"
    /\ UNCHANGED <<opts, li, tasks, todo, unfinished, pending_tasks, wpc, wtask,
                   status, link_cache, netloc, stats, out, err, exit_code, completed>>

HasException_OrErrorStatus(task) ==
    task.exception # "None" \/ ClientOrServerError(task.status)

HasException_TimeoutOnly(task) == task.exception = "Timeout"

\* if task.exception
HasException(task) == task.exception # "None"

\* the loop body up to the links: the error branch, or the report and the
\* link error count
task_body ==
    /\ pc = "body"
    /\ LET task == tasks[cur]
       IN  IF HasException(task)
           THEN /\ status' = 1
                /\ err' = Append(err, <<task.link,
                                        IF task.exception = "Timeout"
                                        THEN "timeout" ELSE task.exception>>)
                /\ st_error_task' = st_error_task + 1
                /\ pc' = "resume"
                /\ UNCHANGED <<li, out, st_error_link>>
           ELSE /\ out' = IF ClientOrServerError(task.status) \/ print_all
                          THEN Append(out, <<task.status, task.link>>)
                          ELSE out
                /\ st_error_link' = IF ClientOrServerError(task.status)
                                    THEN st_error_link + 1
                                    ELSE st_error_link
                /\ li' = 1
                /\ pc' = "links"
                /\ UNCHANGED <<status, err, st_error_task>>
    /\ UNCHANGED <<opts, cur, tasks, todo, done, unfinished, pending_tasks, wpc, wtask,
                   link_cache, netloc, st_total_links, st_total_internal,
                   st_total_external, exit_code, taken, completed>>

\* link not in link_cache
InCache(link, cache) == link \in cache

\* parsed.scheme in ('http', 'https')
AcceptScheme(parsed) == parsed.scheme \in {"http", "https"}

\* parsed.netloc == netloc
IsInternal(parsed, seed_netloc) == parsed.netloc = seed_netloc

GetLinks_Never(policy) == FALSE

GetLinks_Always(policy) == TRUE

\* get_links = (policy == 'follow')
GetLinks(policy) == policy = "follow"

\* process_link with the link put into the cache only when a task is
\* created for it (insert_late), or with st_total_links counting every
\* new link, skipped or not (count_skipped)
process_link_variant(insert_late, count_skipped) ==
    /\ pc = "links"
    /\ li <= Len(tasks[cur].links)
    /\ LET link == urldefrag(tasks[cur].links[li])
           parsed == urlparse(link)
           inside == IsInternal(parsed, netloc)
           policy == IF inside THEN internal ELSE external
       IN  IF InCache(link, link_cache)
           THEN UNCHANGED <<link_cache, tasks, todo, unfinished, pending_tasks,
                            st_total_links, st_total_internal, st_total_external>>
           ELSE IF ~AcceptScheme(parsed) \/ policy = "ignore"
                THEN /\ link_cache' = IF insert_late
                                      THEN link_cache ELSE link_cache \cup {link}
                     /\ st_total_links' = IF count_skipped
                                          THEN st_total_links + 1 ELSE st_total_links
                     /\ UNCHANGED <<tasks, todo, unfinished, pending_tasks,
                                    st_total_internal, st_total_external>>
                ELSE /\ link_cache' = link_cache \cup {link}
                     /\ st_total_internal' =
                           IF inside THEN st_total_internal + 1 ELSE st_total_internal
                     /\ st_total_external' =
                           IF inside THEN st_total_external ELSE st_total_external + 1
                     /\ tasks' = Append(tasks, LinkTask(link, GetLinks(policy)))
                     /\ pending_tasks' = PendingAfterAdd(pending_tasks)
                     /\ todo' = Append(todo, Len(tasks) + 1)
                     /\ unfinished' = unfinished + 1
                     /\ st_total_links' = st_total_links + 1
    /\ li' = li + 1
    /\ UNCHANGED <<opts, pc, cur, done, wpc, wtask, status, netloc,
                   st_error_task, st_error_link, out, err, exit_code, taken, completed>>

process_link_InsertLate == process_link_variant(TRUE, FALSE)

process_link_CountSkipped == process_link_variant(FALSE, TRUE)

\* one turn of "for link in task.links"
process_link ==
    /\ pc = "links"
    /\ li <= Len(tasks[cur].links)
    /\ LET link == urldefrag(tasks[cur].links[li])
           parsed == urlparse(link)
           inside == IsInternal(parsed, netloc)
           policy == IF inside THEN internal ELSE external
       IN  IF InCache(link, link_cache)
           THEN UNCHANGED <<link_cache, tasks, todo, unfinished, pending_tasks,
                            st_total_links, st_total_internal, st_total_external>>
           ELSE /\ link_cache' = link_cache \cup {link}
                /\ IF ~AcceptScheme(parsed) \/ policy = "ignore"
                   THEN UNCHANGED <<tasks, todo, unfinished, pending_tasks,
                                    st_total_links, st_total_internal,
                                    st_total_external>>
                   ELSE /\ st_total_internal' =
                              IF inside THEN st_total_internal + 1 ELSE st_total_internal
                        /\ st_total_external' =
                              IF inside THEN st_total_external ELSE st_total_external + 1
                        /\ tasks' = Append(tasks, LinkTask(link, GetLinks(policy)))
                        /\ pending_tasks' = PendingAfterAdd(pending_tasks)
                        /\ todo' = Append(todo, Len(tasks) + 1)
                        /\ unfinished' = unfinished + 1
                        /\ st_total_links' = st_total_links + 1
    /\ li' = li + 1
    /\ UNCHANGED <<opts, pc, cur, done, wpc, wtask, status, netloc,
                   st_error_task, st_error_link, out, err, exit_code, taken, completed>>

\* the loop body has ended and the generator goes on after its yield
resume ==
    /\ \/ pc = "resume"
       \/ pc = "links" /\ li > Len(tasks[cur].links)
    /\ pending_tasks' = PendingAfterYield(pending_tasks)
    /\ cur' = 0
    /\ li' = 0
    /\ pc' = "poll"
    /\ UNCHANGED <<opts, tasks, todo, done, unfinished, wpc, wtask,
                   status, link_cache, netloc, stats, out, err, exit_code, taken, completed>>

\* the while condition of poll_completed_tasks is false
poll_end ==
    /\ pc = "poll"
    /\ ~(pending_tasks > 0)
    /\ pc' = "join"
    /\ UNCHANGED <<opts, cur, li, tasks, todo, done, unfinished, pending_tasks,
                   wpc, wtask, status, link_cache, netloc, stats, out, err,
                   exit_code, taken, completed>>

\* self.todo.join() returns, the statistics are printed, sys.exit(status)
join_and_exit ==
    /\ pc = "join"
    /\ unfinished = 0
    /\ exit_code' = status
    /\ pc' = "exit"
    /\ UNCHANGED <<opts, cur, li, tasks, todo, done, unfinished, pending_tasks,
                   wpc, wtask, status, link_cache, netloc, stats, out, err, taken, completed>>

Orchestrator ==
    \/ main
    \/ run_setup
    \/ wait_for_task
    \/ task_body
    \/ process_link
    \/ resume
    \/ poll_end
    \/ join_and_exit

Worker(w) ==
    \/ Worker_get(w)
    \/ Worker_run_task(w)
    \/ Worker_put(w)
    \/ Worker_task_done(w)

Next ==
    \/ Orchestrator
    \/ \E w \in Workers : Worker(w)

Spec == Init /\ [][Next]_vars

\* the threads are scheduled fairly and every request returns or raises
Fairness ==
    /\ WF_vars(Orchestrator)
    /\ \A w \in 1..(MaxThreads + 1) : WF_vars(w \in Workers /\ Worker(w))

FairSpec == Spec /\ Fairness

\* the process has ended: sys.exit in run() or in main()
Ended == pc \in {"exit", "rejected"}


(* ------------------------------------------------------------------ *)
(* Vocabulary of the properties                                        *)
(* ------------------------------------------------------------------ *)

TaskIds == 1..Len(tasks)

\* a URL without its fragment
StripFragment(u) == [u EXCEPT !.frag = NoFrag]

\* the host of a URL, as urlparse(u).hostname gives it
HostOf(u) == urlparse(u).hostname

SameHostAsSeed(u) == HostOf(u) = HostOf(url)

IsHttp(u) == urlparse(u).scheme \in {"http", "https"}

\* run() has reached sys.exit(status)
RunEnded == pc = "exit"

\* task i has been executed by a worker and is on the done queue or beyond
Delivered(i) ==
    \/ \E k \in 1..Len(done) : done[k] = i
    \/ \E k \in 1..Len(taken) : taken[k] = i

Ran(i) == tasks[i].status # NoStatus \/ tasks[i].exception # "None"

\* the tasks whose loop body has ended
Finished == { taken[k] : k \in 1..Len(taken) } \ {cur}

\* the links the loop "for link in task.links" has gone through so far
LinksSeen ==
    UNION { { tasks[i].links[j] : j \in 1..Len(tasks[i].links) } :
            i \in { f \in Finished : tasks[f].exception = "None" } }
    \cup (IF pc = "links"
          THEN { tasks[cur].links[j] : j \in 1..(li - 1) }
          ELSE {})

\* a worker holds a task it has taken and not yet put on the done queue
Executing(w) == wpc[w] \in {"run", "put"}

(* ------------------------------------------------------------------ *)
(* C1                                                                  *)
(* ------------------------------------------------------------------ *)

\* C1: over all tasks submitted to the pool (the seed task included), no
\* two tasks have the same fragment-stripped target URL.
C1_Dedup ==
    \A i, j \in TaskIds :
        i # j => StripFragment(tasks[i].link) # StripFragment(tasks[j].link)

(* ------------------------------------------------------------------ *)
(* C2                                                                  *)
(* ------------------------------------------------------------------ *)

\* C2: under fair scheduling, once the seed task is submitted the frontier
\* counter eventually reaches exactly 0 and the orchestrator loop ends, and
\* no state before the end of the process is a deadlock.
C2_Termination ==
    /\ [](pc = "poll" => <>(RunEnded /\ pending_tasks = 0))
    /\ [](Ended \/ ENABLED Next)

\* a run over the cyclic site, both scopes followed, has ended
C2_Witness ==
    /\ RunEnded
    /\ pending_tasks = 0
    /\ site = "scenario" /\ internal = "follow" /\ external = "follow"
    /\ Len(tasks) = 3

(* ------------------------------------------------------------------ *)
(* C3                                                                  *)
(* ------------------------------------------------------------------ *)

\* C3 as stated: pending_tasks is the number of tasks created by add_task
\* minus the number of completed tasks taken back from the done queue, and
\* it is never negative.
C3_Original ==
    /\ pending_tasks = Len(tasks) - Len(taken)
    /\ pending_tasks >= 0

\* C3 amended: pending_tasks is the number of tasks created by add_task
\* minus the number of completed tasks whose loop body has ended (a task
\* that has been taken back stays counted until the generator goes on
\* after its yield), and it is never negative.
C3_FrontierCounter ==
    /\ pending_tasks = Len(tasks) - Cardinality(Finished)
    /\ pending_tasks >= 0

\* a task has been taken back and has had tasks created on its behalf, and
\* an earlier task is already finished
C3_Witness ==
    /\ pc = "links"
    /\ cur # 0
    /\ Len(tasks) >= 3
    /\ pending_tasks = Len(tasks) - Len(taken) + 1

(* ------------------------------------------------------------------ *)
(* C4                                                                  *)
(* ------------------------------------------------------------------ *)

\* C4: when the orchestrator sees the frontier counter at 0 and leaves its
\* loop, and from then on, the todo queue is empty, no worker is executing
\* a task and the done queue is empty.
C4_Quiescence ==
    (pc \in {"join", "exit"} \/ (pc = "poll" /\ pending_tasks = 0))
        => /\ todo = << >>
           /\ done = << >>
           /\ \A w \in Workers : ~Executing(w)

\* the loop has been left after several tasks while a worker has not yet
\* called task_done
C4_Witness ==
    /\ pc = "join"
    /\ unfinished > 0
    /\ Len(tasks) >= 3

(* ------------------------------------------------------------------ *)
(* C5                                                                  *)
(* ------------------------------------------------------------------ *)

\* C5: with internal=ignore, no task is ever created for a discovered link
\* whose host is the seed's host.
C5_IgnoreInternal ==
    internal = "ignore" =>
        \A i \in TaskIds : i # 1 => ~SameHostAsSeed(tasks[i].link)

(* ------------------------------------------------------------------ *)
(* C6                                                                  *)
(* ------------------------------------------------------------------ *)

FollowTaskFor(l) ==
    \E i \in TaskIds : tasks[i].link = urldefrag(l) /\ tasks[i].parse_links

ExternalTasks ==
    { i \in TaskIds : i # 1 /\ ~SameHostAsSeed(tasks[i].link) }

\* C6: with external=follow, every external http/https link the loop has
\* gone through has a task with parse_links = True, every task for an
\* external link has parse_links = True, and the run reaches its end with
\* all of them executed.
C6_FollowExternal ==
    /\ [](external = "follow" =>
            /\ \A l \in LinksSeen :
                 (IsHttp(l) /\ ~SameHostAsSeed(l)) => FollowTaskFor(l)
            /\ \A i \in ExternalTasks : tasks[i].parse_links)
    /\ (external = "follow" /\ pc = "poll")
         ~> (RunEnded /\ \A i \in ExternalTasks : Ran(i) /\ i \in Finished)

\* a followed external page has been fetched and its links extracted
C6_Witness ==
    /\ external = "follow"
    /\ \E i \in TaskIds :
         /\ i # 1
         /\ ~SameHostAsSeed(tasks[i].link)
         /\ tasks[i].parse_links
         /\ Len(tasks[i].links) > 0
         /\ i \in Finished

(* ------------------------------------------------------------------ *)
(* C7                                                                  *)
(* ------------------------------------------------------------------ *)

\* C7: a discovered http/https link for which a task is created is counted
\* as internal if and only if its host is the seed's host (else external).
C7_Classification ==
    [][(Len(tasks) >= 1 /\ Len(tasks') = Len(tasks) + 1)
         => /\ (st_total_internal' = st_total_internal + 1)
                 <=> SameHostAsSeed(tasks'[Len(tasks')].link)
            /\ (st_total_external' = st_total_external + 1)
                 <=> ~SameHostAsSeed(tasks'[Len(tasks')].link)]_vars

(* ------------------------------------------------------------------ *)
(* C8                                                                  *)
(* ------------------------------------------------------------------ *)

ErrLinesFor(i) == { k \in 1..Len(err) : err[k][1] = tasks[i].link }

TimedOut == { i \in TaskIds : tasks[i].exception = "Timeout" }

\* C8: when a task's fetch has timed out, the run still reaches its end,
\* with the frontier counter at 0, every timed-out task taken back from the
\* done queue, exactly one error line for each of them, and the task-error
\* counter equal to the number of tasks that carry an error.
C8_ErrorIsolation ==
    (TimedOut # {})
      ~> /\ RunEnded
         /\ pending_tasks = 0
         /\ TimedOut # {}
         /\ \A i \in TimedOut : i \in Finished /\ Cardinality(ErrLinesFor(i)) = 1
         /\ st_error_task = Cardinality({ j \in TaskIds : tasks[j].exception # "None" })

\* a run with a timed-out task has ended
C8_Witness ==
    /\ RunEnded
    /\ \E i \in TaskIds : tasks[i].exception = "Timeout" /\ i # 1
    /\ st_error_task >= 1

(* ------------------------------------------------------------------ *)
(* C9                                                                  *)
(* ------------------------------------------------------------------ *)

\* C9: at the end of a run the exit status is 1 if a completed task carried
\* an exception and 0 otherwise, whatever the number of link errors, and
\* status never goes from 1 back to 0.
C9_ExitStatus ==
    /\ [](RunEnded =>
            /\ exit_code \in {0, 1}
            /\ exit_code = 1 <=> \E i \in Finished : tasks[i].exception # "None")
    /\ [][status = 1 => status' = 1]_vars

\* a run with link errors and no task error has ended with status 0
C9_Witness ==
    /\ RunEnded
    /\ exit_code = 0
    /\ st_error_link >= 2

(* ------------------------------------------------------------------ *)
(* C10                                                                 *)
(* ------------------------------------------------------------------ *)

Scenario ==
    /\ url = Home
    /\ site = "scenario"
    /\ internal = "follow"
    /\ external = "check"

\* C10: in the scenario (seed page linking to /about and http://other.test/,
\* internal=follow, external=check) never more than two further tasks are
\* created, and at the end of the run they are /about with extraction on
\* and http://other.test/ with extraction off, with internal=2, external=1.
C10_Scenario ==
    Scenario =>
        /\ Len(tasks) <= 3
        /\ RunEnded =>
             /\ Len(tasks) = 3
             /\ { <<tasks[i].link, tasks[i].parse_links>> : i \in 2..3 }
                  = { <<About, TRUE>>, <<Other, FALSE>> }
             /\ st_total_internal = 2
             /\ st_total_external = 1
             /\ st_total_links = 3

\* the scenario's run has ended, /about having been parsed
C10_Witness ==
    /\ Scenario
    /\ RunEnded
    /\ \E i \in TaskIds : tasks[i].link = About /\ Len(tasks[i].links) = 2


(* ------------------------------------------------------------------ *)
(* C11                                                                 *)
(* ------------------------------------------------------------------ *)

SeedAnswered404 ==
    /\ Len(tasks) >= 1
    /\ tasks[1].status = 404
    /\ tasks[1].exception = "None"

\* C11: when the seed task completes with status 404 and print-all is off,
\* the task's link list is empty, no further task is submitted, at most one
\* report line is written, and at the end of the run the output is exactly
\* the line (404, seed URL) and the frontier counter is 0 after that single
\* task.
C11_Seed404 ==
    (SeedAnswered404 /\ ~print_all) =>
        /\ tasks[1].links = << >>
        /\ Len(tasks) = 1
        /\ out \in { << >>, << <<404, url>> >> }
        /\ err = << >>
        /\ (1 \in Finished) => out = << <<404, url>> >>
        /\ RunEnded => /\ out = << <<404, url>> >>
                       /\ pending_tasks = 0
                       /\ taken = << 1 >>

\* the run on the 404 seed, print-all off, has ended
C11_Witness ==
    /\ SeedAnswered404
    /\ ~print_all
    /\ RunEnded
    /\ out = << <<404, url>> >>

(* ------------------------------------------------------------------ *)
(* C12                                                                 *)
(* ------------------------------------------------------------------ *)

\* C12: with a thread count below 1 no worker is started and no task is
\* submitted at any time; the process never enters run(): it is about to
\* be rejected in main or has ended there with an error message and exit
\* status 1.
C12_ThreadGuard ==
    threads < 1 =>
        /\ tasks = << >>
        /\ todo = << >>
        /\ Workers = {}
        /\ pending_tasks = 0
        /\ pc \in {"main", "rejected"}
        /\ pc = "main" => ENABLED Next
        /\ pc = "rejected" => (exit_code = 1 /\ Len(err) = 1)

\* --threads 0 has been rejected
C12_Witness ==
    /\ threads = 0
    /\ pc = "rejected"
    /\ exit_code = 1


(* ------------------------------------------------------------------ *)
(* C13                                                                 *)
(* ------------------------------------------------------------------ *)

InErrorRange(st) == st \in 400..599

\* the step of the loop body that handles the task in hand
BodyStep == pc = "body" /\ pc' # "body"

\* C13: the step that handles a completed task without an error writes the
\* report (status, URL) if and only if the status is in 400..599 or
\* print-all is set, and adds one to the link-error counter if and only if
\* the status is in 400..599; no other step writes a report or changes the
\* counter; at the end of the run the counter is the number of error-free
\* tasks whose status is in 400..599.
C13_Reporting ==
    /\ [][(BodyStep /\ tasks[cur].exception = "None") =>
            /\ out' = IF InErrorRange(tasks[cur].status) \/ print_all
                      THEN Append(out, <<tasks[cur].status, tasks[cur].link>>)
                      ELSE out
            /\ st_error_link' = IF InErrorRange(tasks[cur].status)
                                THEN st_error_link + 1
                                ELSE st_error_link]_vars
    /\ [][~BodyStep => (out' = out /\ st_error_link' = st_error_link)]_vars
    /\ [](RunEnded =>
            st_error_link =
              Cardinality({ i \in TaskIds : /\ tasks[i].exception = "None"
                                            /\ InErrorRange(tasks[i].status) }))

\* print-all off: of four tasks (statuses 200, 599, 400, 600) two are
\* reported and counted
C13_Witness ==
    /\ RunEnded
    /\ ~print_all
    /\ Len(tasks) = 4
    /\ st_error_link = 2
    /\ Len(out) = 2
    /\ \E i \in TaskIds : tasks[i].status = 400
    /\ \E i \in TaskIds : tasks[i].status = 600

(* ------------------------------------------------------------------ *)
(* C14                                                                 *)
(* ------------------------------------------------------------------ *)

\* the task in the orchestrator's hands carries an error
ErroredInHand == cur # 0 /\ tasks[cur].exception # "None"

\* C14: the step that handles a completed task carrying an error adds one
\* to the task-error counter and writes one error line for the task's URL;
\* while that task is in the orchestrator's hands no task is created or
\* queued, the link cache does not change and no report is written, even
\* when the task holds links or a status; no other step changes the
\* task-error counter.
C14_ErroredTask ==
    /\ [][(BodyStep /\ ErroredInHand) =>
            /\ st_error_task' = st_error_task + 1
            /\ Len(err') = Len(err) + 1
            /\ err'[Len(err')][1] = tasks[cur].link
            /\ pc' = "resume"]_vars
    /\ [][ErroredInHand =>
            /\ Len(tasks') = Len(tasks)
            /\ Len(todo') <= Len(todo)
            /\ pending_tasks' <= pending_tasks
            /\ link_cache' = link_cache
            /\ out' = out]_vars
    /\ [][~BodyStep => st_error_task' = st_error_task]_vars

\* an errored task that holds a status and a link not yet in the cache has
\* been handled
C14_Witness ==
    /\ pc = "resume"
    /\ tasks[cur].exception # "None"
    /\ tasks[cur].status = 200
    /\ Len(tasks[cur].links) = 1
    /\ urldefrag(tasks[cur].links[1]) \notin link_cache
    /\ st_error_task >= 1


(* ------------------------------------------------------------------ *)
(* C15                                                                 *)
(* ------------------------------------------------------------------ *)

\* the tasks the loop body has handled, in the order it handled them
Handled == IF pc = "body" THEN SubSeq(taken, 1, Len(taken) - 1) ELSE taken

RECURSIVE ReportsOf(_)
\* the report lines that handling the tasks of ids, in that order, gives
ReportsOf(ids) ==
    IF ids = << >>
    THEN << >>
    ELSE LET t == tasks[Head(ids)]
         IN  (IF t.exception = "None" /\ (InErrorRange(t.status) \/ print_all)
              THEN << <<t.status, t.link>> >>
              ELSE << >>) \o ReportsOf(Tail(ids))

RECURSIVE ErrorLinksOf(_)
\* the URLs of the error lines that handling the tasks of ids gives
ErrorLinksOf(ids) ==
    IF ids = << >>
    THEN << >>
    ELSE (IF tasks[Head(ids)].exception # "None"
          THEN << tasks[Head(ids)].link >>
          ELSE << >>) \o ErrorLinksOf(Tail(ids))

\* C15: the orchestrator takes the tasks back in exactly the order in which
\* the workers put them on the done queue, and the report lines and the
\* error lines written so far are those of the tasks handled so far, in
\* that order.
C15_CompletionOrder ==
    /\ completed = taken \o done
    /\ out = ReportsOf(Handled)
    /\ pc # "rejected" => [k \in 1..Len(err) |-> err[k][1]] = ErrorLinksOf(Handled)

\* the third task submitted completed, and was reported, before the second
C15_Witness ==
    /\ RunEnded
    /\ print_all
    /\ Len(tasks) = 4
    /\ taken = << 1, 3, 2, 4 >>
    /\ out = << <<tasks[1].status, tasks[1].link>>, <<tasks[3].status, tasks[3].link>>,
                <<tasks[2].status, tasks[2].link>>, <<tasks[4].status, tasks[4].link>> >>

(* ------------------------------------------------------------------ *)
(* C16                                                                 *)
(* ------------------------------------------------------------------ *)

\* C16: once the pool is started there are exactly `threads` workers; the
\* workers that are executing hold pairwise different tasks, none of which
\* is still on the todo queue, so at most `threads` tasks are executing; a
\* worker that takes a task takes the head of the todo queue, which is the
\* earliest submitted task of the queue.
C16_PoolBound ==
    /\ [](pc \in {"poll", "body", "links", "resume", "join", "exit"} =>
            /\ Cardinality(Workers) = threads
            /\ \A w \in Workers : (wpc[w] = "get") <=> (wtask[w] = 0)
            /\ \A w1, w2 \in Workers :
                 (w1 # w2 /\ Executing(w1) /\ Executing(w2)) => wtask[w1] # wtask[w2]
            /\ \A w \in Workers : \A k \in 1..Len(todo) :
                 Executing(w) => todo[k] # wtask[w]
            /\ Cardinality({ wtask[w] : w \in { x \in Workers : Executing(x) } })
                 <= threads)
    /\ [][\A w \in Workers :
            (wtask'[w] # wtask[w] /\ wtask'[w] # 0) =>
               /\ wtask[w] = 0
               /\ wtask'[w] = Head(todo)
               /\ todo' = Tail(todo)
               /\ \A k \in 1..Len(todo') : wtask'[w] < todo'[k]]_vars

\* two workers are executing while a third task waits on the todo queue
C16_Witness ==
    /\ threads = 2
    /\ Workers = {1, 2}
    /\ Executing(1)
    /\ Executing(2)
    /\ wtask[1] # wtask[2]
    /\ todo # << >>


(* ------------------------------------------------------------------ *)
(* C17                                                                 *)
(* ------------------------------------------------------------------ *)

\* how often the task i occurs in the sequence q
Occurrences(q, i) == Cardinality({ k \in 1..Len(q) : q[k] = i })

\* the workers that have taken task i and not yet put it on the done queue
Holding(i) == { w \in Workers : wtask[w] = i /\ Executing(w) }

\* C17: every submitted task is at any time in exactly one place: once on
\* the todo queue, or in the hands of exactly one worker, or put once on
\* the done queue (with or without an error); it has its result exactly
\* when a worker has run it; its record changes only in the step in which
\* the worker holding it runs it, which happens before it is put on the
\* done queue and at most once; at the end of the run every task has been
\* put on the done queue once.
C17_ExactlyOnce ==
    /\ [](\A i \in TaskIds :
            /\ Occurrences(todo, i) + Cardinality(Holding(i))
                 + Occurrences(completed, i) = 1
            /\ Cardinality({ w \in Workers : wtask[w] = i }) <= 1
            /\ Ran(i) <=> (\/ Occurrences(completed, i) = 1
                           \/ \E w \in Holding(i) : wpc[w] = "put"))
    /\ [][\A i \in TaskIds :
            tasks'[i] # tasks[i] =>
               /\ ~Ran(i)
               /\ Occurrences(completed, i) = 0
               /\ \E w \in Workers :
                    wtask[w] = i /\ wpc[w] = "run" /\ wpc'[w] = "put"]_vars
    /\ [](RunEnded => \A i \in TaskIds : Occurrences(completed, i) = 1)

\* a run of two workers has ended with three tasks delivered, one of them
\* with an error
C17_Witness ==
    /\ RunEnded
    /\ threads = 2
    /\ Len(tasks) = 3
    /\ Len(completed) = 3
    /\ \E i \in TaskIds : tasks[i].exception # "None"
    /\ \E i \in TaskIds : tasks[i].exception = "None" /\ i # 1


(* ------------------------------------------------------------------ *)
(* C18                                                                 *)
(* ------------------------------------------------------------------ *)

\* the policy of the scope the program puts the link in
ScopePolicy(l) ==
    IF urlparse(urldefrag(l)).netloc = urlparse(url).netloc
    THEN internal ELSE external

\* the link is skipped when it is first met
SkippedLink(l) == ~IsHttp(l) \/ ScopePolicy(l) = "ignore"

\* C18: every link the loop has gone through is in the link cache
\* (fragment-stripped), whether a task was created for it or not; the cache
\* never loses a URL; a task is only created for a URL that was not in the
\* cache and is put into it in the same step; so no task other than the
\* seed task exists for a link that was skipped because of its scheme or
\* because its scope's policy is ignore.
C18_InsertBeforeDecide ==
    /\ [](\A l \in LinksSeen : urldefrag(l) \in link_cache)
    /\ [][link_cache \subseteq link_cache']_vars
    /\ [][(Len(tasks) >= 1 /\ Len(tasks') = Len(tasks) + 1) =>
            /\ tasks'[Len(tasks')].link \notin link_cache
            /\ tasks'[Len(tasks')].link \in link_cache']_vars
    /\ [](\A l \in LinksSeen :
            SkippedLink(l) =>
               \A i \in TaskIds : i # 1 => tasks[i].link # urldefrag(l))

\* internal=ignore: /x, met twice (as /x#a and /x#b), and the mailto link
\* are in the cache at the end of the run and have no task
C18_Witness ==
    /\ RunEnded
    /\ site = "frags"
    /\ internal = "ignore"
    /\ Abs("http", "example.test", "", "/x", NoFrag) \in link_cache
    /\ Abs("mailto", "", "", "bob@example.test", NoFrag) \in link_cache
    /\ Len(tasks) = 1
    /\ Len(tasks[1].links) = 4

(* ------------------------------------------------------------------ *)
(* C19                                                                 *)
(* ------------------------------------------------------------------ *)

NoFollow == internal # "follow" /\ external # "follow"

\* C19: the seed task is the task for the given URL with parse_links = True
\* whatever the policies; when neither policy is follow, every other task
\* has parse_links = False and an empty link list and is for a link of the
\* seed page, and no task is created once the seed task has been handled.
C19_SeedOnlyExtracts ==
    /\ [](Len(tasks) >= 1 => (tasks[1].link = url /\ tasks[1].parse_links))
    /\ [](NoFollow =>
            \A i \in TaskIds : i # 1 =>
               /\ ~tasks[i].parse_links
               /\ tasks[i].links = << >>
               /\ \E j \in 1..Len(tasks[1].links) :
                    urldefrag(tasks[1].links[j]) = tasks[i].link)
    /\ [][(NoFollow /\ 1 \in Finished) => Len(tasks') = Len(tasks)]_vars

\* check/check on the scenario site: the run has ended with the HTML pages
\* /about and http://other.test/ fetched and not parsed
C19_Witness ==
    /\ RunEnded
    /\ site = "scenario"
    /\ internal = "check"
    /\ external = "check"
    /\ Len(tasks) = 3
    /\ \A i \in 2..3 : tasks[i].status = 200 /\ tasks[i].links = << >>

(* ------------------------------------------------------------------ *)
(* C20                                                                 *)
(* ------------------------------------------------------------------ *)

\* the orchestrator is between two tasks, or past the loop
BetweenTasks == pc \in {"poll", "join", "exit"}

\* C20: whenever the orchestrator is between two tasks or past the loop,
\* total links = internal + external = the number of tasks created (the
\* seed included) and the URL of every task is in the link cache; at the
\* end of the run task errors + link errors <= total links.
C20_Statistics ==
    /\ BetweenTasks =>
         /\ st_total_links = st_total_internal + st_total_external
         /\ st_total_links = Len(tasks)
         /\ \A i \in TaskIds : tasks[i].link \in link_cache
    /\ RunEnded => st_error_task + st_error_link <= st_total_links

\* a run with two internal and two external tasks, two of them link
\* errors, has ended
C20_Witness ==
    /\ RunEnded
    /\ st_total_links = 4
    /\ st_total_internal = 2
    /\ st_total_external = 2
    /\ st_error_link = 2
    /\ Cardinality(link_cache) = 4

====
